---- MODULE Spec2Model ----
(***************************************************************************)
(* A model of the tiered allocator of src/src/mem.cc: HugeBlock,           *)
(* LargeBlock, SmallAlloc, LargeAlloc, GlobalAlloc and ThreadAlloc, the    *)
(* intrusive lists, the Bitset and the cross-thread free protocol.         *)
(*                                                                         *)
(* Addresses are integers.  The geometry is the source's with smaller      *)
(* exponents, so that TLC can fill an allocator with a handful of          *)
(* requests: every size below is derived by the source's own formula from  *)
(* B, g_sb_bits, PAGE_BITS, SA_SIZE, SMALL_MAX and g_max_alloc_size.       *)
(*   source : B = 6, g_sb_bits = 15, page = 2^12, SA_SIZE = 64,            *)
(*            small tier <= 2048, g_max_alloc_size = 2^17                  *)
(*   model  : B = 2, g_sb_bits = 7,  page = 2^6,  SA_SIZE = 30,            *)
(*            small tier <= 64,   g_max_alloc_size = 2^8                   *)
(***************************************************************************)
EXTENDS Integers, FiniteSets, Sequences, TLC

NULL == 0
NoThread == -1
MAP_FAILED == -1

\* ---------------------------------------------------------------- geometry
B == 2
W == 2 ^ B
R == W - 1
g_array_size == 2
g_sb_bits == 7
g_lb_bits == g_sb_bits + B
g_hb_bits == g_lb_bits + B
PAGE_BITS == 6
PAGE == 2 ^ PAGE_BITS
SMALL_MAX == 64
g_max_alloc_size == 2 ^ 8

SB_SIZE == 2 ^ g_sb_bits
LB_SIZE == 2 ^ g_lb_bits
HB_SIZE == 2 ^ g_hb_bits

SA_BS_BITS == 2 ^ (g_sb_bits - 4)
SA_SIZE == 30
SA_HDR == SA_SIZE + (SA_BS_BITS \div 4)
SA_MAX_bIT == SA_BS_BITS - (SA_HDR \div 16)

LA_BS_BITS == 2 ^ (g_lb_bits - PAGE_BITS)
LA_MAX_bIT == LA_BS_BITS - 1

align_up(n, k) == ((n + k - 1) \div k) * k
align_down(p, k) == (p \div k) * k

Max(S) == CHOOSE x \in S : \A y \in S : y <= x
Min(S) == CHOOSE x \in S : \A y \in S : x <= y

\* ------------------------------------------------------------------ Bitset
\* A Bitset is the set of the indexes of its set bits; Word(bs, n) is the
\* cell _s[n] as the set of bit positions 0..W-1 set in it.
Word(bs, n) == {b % W : b \in {c \in bs : c \div W = n}}

find_msb(x) == Max(x)
find_lsb(x) == Min(x)

Bitset_set(bs, i) == bs \cup {(i \div W) * W + (i % W)}
Bitset_unset(bs, i) == bs \ {(i \div W) * W + (i % W)}

RECURSIVE rfind_loop(_, _)
rfind_loop(bs, n) ==
    LET x == Word(bs, n)
    IN  IF x # {} THEN find_msb(x) + n * W
        ELSE IF n - 1 >= 0 THEN rfind_loop(bs, n - 1)
        ELSE -1

rfind(bs, i) == rfind_loop(bs, i \div W)

\* ------------------------------------------------------------------- lists
\* f maps node addresses to records with next and prev; l is the list_t.
\* ok is FALSE when the operation dereferences nil or an address that
\* holds no node.
Wr(f, a, fld, v) == IF a \in DOMAIN f THEN [f EXCEPT ![a][fld] = v] ELSE f

list_push_front(f, l, node) ==
    IF l # NULL
    THEN LET f1 == Wr(f, node, "next", l)
             f2 == Wr(f1, node, "prev", f1[l].prev)
             f3 == Wr(f2, l, "prev", node)
         IN  [f |-> f3, l |-> node, ok |-> TRUE]
    ELSE LET f1 == Wr(f, node, "next", NULL)
             f2 == Wr(f1, node, "prev", node)
         IN  [f |-> f2, l |-> node, ok |-> TRUE]

list_move_front(f, l, node) ==
    IF node # l
    THEN IF f[node].prev \in DOMAIN f /\ f[node].next \in DOMAIN f
         THEN LET f1 == Wr(f, f[node].prev, "next", f[node].next)
                  f2 == Wr(f1, f1[node].next, "prev", f1[node].prev)
                  f3 == Wr(f2, node, "prev", f2[l].prev)
                  f4 == Wr(f3, node, "next", l)
                  f5 == Wr(f4, l, "prev", node)
              IN  [f |-> f5, l |-> node, ok |-> TRUE]
         ELSE [f |-> f, l |-> l, ok |-> FALSE]
    ELSE [f |-> f, l |-> l, ok |-> TRUE]

list_move_head_back(f, l) ==
    LET head == f[l].next
        f1 == Wr(f, f[l].prev, "next", l)
        f2 == Wr(f1, l, "next", NULL)
    IN  [f |-> f2, l |-> head, ok |-> f[l].prev \in DOMAIN f]

\* an erase that repairs the forward link only
list_erase_fwd(f, l, node) ==
    IF f[node].prev \in DOMAIN f
    THEN [f |-> Wr(f, f[node].prev, "next", f[node].next), l |-> l,
          ok |-> TRUE]
    ELSE [f |-> f, l |-> l, ok |-> FALSE]

list_erase(f, l, node) ==
    IF f[node].prev \in DOMAIN f
    THEN LET f1 == Wr(f, f[node].prev, "next", f[node].next)
             x == IF f1[node].next # NULL THEN f1[node].next ELSE l
             f2 == Wr(f1, x, "prev", f1[node].prev)
         IN  [f |-> f2, l |-> l, ok |-> x \in DOMAIN f]
    ELSE [f |-> f, l |-> l, ok |-> FALSE]

\* ----------------------------------------------- HugeBlock and LargeBlock
\* _bits is one word; alloc takes its lowest clear bit when that is < R.
LowestClear(bits) == Min((0 .. W - 1) \ bits)

HugeBlock_new(p) == [next |-> NULL, prev |-> NULL, p |-> p, bits |-> {}]

HugeBlock_alloc(h) ==
    LET i == LowestClear(h.bits)
    IN  IF i < R
        THEN [h |-> [h EXCEPT !.bits = @ \cup {i}], p |-> h.p + i * LB_SIZE]
        ELSE [h |-> h, p |-> NULL]

\* a HugeBlock::free that never reports the block empty
HugeBlock_free_keep(h, p) ==
    LET i == (p - h.p) \div LB_SIZE
    IN  [h |-> [h EXCEPT !.bits = @ \ {i}], r |-> FALSE]

HugeBlock_free(h, p) ==
    LET i == (p - h.p) \div LB_SIZE
        h1 == [h EXCEPT !.bits = @ \ {i}]
    IN  [h |-> h1, r |-> h1.bits = {}]

LargeBlock_new(self, parent) ==
    [next |-> NULL, prev |-> NULL, parent |-> parent, p |-> self + SB_SIZE,
     bits |-> {}]

LargeBlock_alloc(b) ==
    LET i == LowestClear(b.bits)
    IN  IF i < R
        THEN [b |-> [b EXCEPT !.bits = @ \cup {i}], p |-> b.p + i * SB_SIZE]
        ELSE [b |-> b, p |-> NULL]

LargeBlock_free(b, p) ==
    LET i == (p - b.p) \div SB_SIZE
        b1 == [b EXCEPT !.bits = @ \ {i}]
    IN  [b |-> b1, r |-> b1.bits = {}]

\* ------------------------------------------------ SmallAlloc and LargeAlloc
\* The constructors set the header fields only: the two bitmaps are whatever
\* the memory holds (mem = the record found at that address, or none).
SmallAlloc_new(self, parent, t, bs, xbs) ==
    [next |-> NULL, prev |-> NULL, parent |-> parent, ta |-> t,
     p |-> self + SA_HDR, bs |-> bs, xbs |-> xbs, cur_bit |-> 0]

LargeAlloc_new(self, parent, t) ==
    [next |-> NULL, prev |-> NULL, parent |-> parent, ta |-> t,
     p |-> self + PAGE, bs |-> {}, xbs |-> {}, cur_bit |-> 0]

\* alloc n units: a is the allocator, max its MAX_bIT, sz its unit size
Bump_alloc(a, n, max, sz) ==
    IF a.cur_bit + n <= max
    THEN [a |-> [a EXCEPT !.bs = Bitset_set(@, a.cur_bit),
                          !.cur_bit = @ + n],
          p |-> a.p + a.cur_bit * sz]
    ELSE [a |-> a, p |-> NULL]

SmallAlloc_alloc(a, n) == Bump_alloc(a, n, SA_MAX_bIT, 16)
LargeAlloc_alloc(a, n) == Bump_alloc(a, n, LA_MAX_bIT, PAGE)

\* a free that rewinds the cursor to the freed slot whatever lies above it
Bump_free_rewind(a, p, sz) ==
    LET i == (p - a.p) \div sz
        bs1 == Bitset_unset(a.bs, i)
        r == rfind(bs1, a.cur_bit)
        c == IF r >= 0 THEN i ELSE 0
    IN  [a |-> [a EXCEPT !.bs = bs1, !.cur_bit = c], r |-> c = 0]

\* a free that rewinds the cursor only when the bitmap becomes empty
Bump_free_no_rewind(a, p, sz) ==
    LET i == (p - a.p) \div sz
        bs1 == Bitset_unset(a.bs, i)
        r == rfind(bs1, a.cur_bit)
    IN  IF r < 0
        THEN [a |-> [a EXCEPT !.bs = bs1, !.cur_bit = 0], r |-> TRUE]
        ELSE [a |-> [a EXCEPT !.bs = bs1], r |-> FALSE]

\* a free that rewinds the cursor to the freed slot and never to 0
Bump_free_stay(a, p, sz) ==
    LET i == (p - a.p) \div sz
        bs1 == Bitset_unset(a.bs, i)
        r == rfind(bs1, a.cur_bit)
    IN  IF r < i
        THEN [a |-> [a EXCEPT !.bs = bs1, !.cur_bit = i], r |-> i = 0]
        ELSE [a |-> [a EXCEPT !.bs = bs1], r |-> FALSE]

\* a free that reports the allocator empty whenever the cursor moved
Bump_free_moved(a, p, sz) ==
    LET i == (p - a.p) \div sz
        bs1 == Bitset_unset(a.bs, i)
        r == rfind(bs1, a.cur_bit)
    IN  IF r < i
        THEN LET c == IF r >= 0 THEN i ELSE 0
             IN  [a |-> [a EXCEPT !.bs = bs1, !.cur_bit = c], r |-> TRUE]
        ELSE [a |-> [a EXCEPT !.bs = bs1], r |-> FALSE]

\* a free that never reports the allocator empty
Bump_free_never(a, p, sz) ==
    LET i == (p - a.p) \div sz
        bs1 == Bitset_unset(a.bs, i)
        r == rfind(bs1, a.cur_bit)
    IN  IF r < i
        THEN LET c == IF r >= 0 THEN i ELSE 0
             IN  [a |-> [a EXCEPT !.bs = bs1, !.cur_bit = c], r |-> FALSE]
        ELSE [a |-> [a EXCEPT !.bs = bs1], r |-> FALSE]

Bump_free(a, p, sz) ==
    LET i == (p - a.p) \div sz
        bs1 == Bitset_unset(a.bs, i)
        r == rfind(bs1, a.cur_bit)
    IN  IF r < i
        THEN LET c == IF r >= 0 THEN i ELSE 0
             IN  [a |-> [a EXCEPT !.bs = bs1, !.cur_bit = c], r |-> c = 0]
        ELSE [a |-> [a EXCEPT !.bs = bs1], r |-> FALSE]

SmallAlloc_free(a, p) == Bump_free(a, p, 16)
LargeAlloc_free(a, p) == Bump_free(a, p, PAGE)

\* a foreign free that also clears the bit in bs
Bump_xfree_clear(a, p, sz) ==
    LET i == (p - a.p) \div sz
    IN  [a EXCEPT !.xbs = Bitset_set(@, i), !.bs = Bitset_unset(@, i)]

Bump_xfree(a, p, sz) ==
    LET i == (p - a.p) \div sz
    IN  [a EXCEPT !.xbs = Bitset_set(@, i)]

SmallAlloc_xfree(a, p) == Bump_xfree(a, p, 16)
LargeAlloc_xfree(a, p) == Bump_xfree(a, p, PAGE)

\* a realloc that grows any object in place, topmost or not
Bump_realloc_any(a, p, o, n, max, sz) ==
    LET i == (p - a.p) \div sz
    IN  IF i + n <= max
        THEN [a |-> [a EXCEPT !.cur_bit = IF @ < i + n THEN i + n ELSE @],
              p |-> p]
        ELSE [a |-> a, p |-> NULL]

Bump_realloc(a, p, o, n, max, sz) ==
    LET i == (p - a.p) \div sz
    IN  IF a.cur_bit = i + o /\ i + n <= max
        THEN [a |-> [a EXCEPT !.cur_bit = i + n], p |-> p]
        ELSE [a |-> a, p |-> NULL]

SmallAlloc_realloc(a, p, o, n) == Bump_realloc(a, p, o, n, SA_MAX_bIT, 16)
LargeAlloc_realloc(a, p, o, n) == Bump_realloc(a, p, o, n, LA_MAX_bIT, PAGE)

\* a drain that lowers the cursor to the lowest drained bit whatever is
\* still set above it
drain_cell_low(a, i) ==
    LET x == Word(a.xbs, i)
        xg == {b + i * W : b \in x}
    IN  IF x # {}
        THEN LET bs1 == a.bs \ xg
                 lsb == find_lsb(x) + i * W
                 r == rfind(bs1, a.cur_bit)
                 c == IF r >= 0 THEN lsb ELSE 0
             IN  [a |-> [a EXCEPT !.xbs = @ \ xg, !.bs = bs1, !.cur_bit = c],
                  more |-> c # 0, x |-> xg]
        ELSE [a |-> a, more |-> TRUE, x |-> {}]

\* a drain that reclaims only the lowest foreign-freed bit of the cell
drain_cell_one(a, i) ==
    LET x == Word(a.xbs, i)
    IN  IF x # {}
        THEN LET lsb == find_lsb(x) + i * W
                 bs1 == a.bs \ {lsb}
                 r == rfind(bs1, a.cur_bit)
                 a1 == [a EXCEPT !.xbs = @ \ {lsb}, !.bs = bs1]
             IN  IF r >= lsb
                 THEN [a |-> a1, more |-> FALSE, x |-> {lsb}]
                 ELSE LET c == IF r >= 0 THEN lsb ELSE 0
                      IN  [a |-> [a1 EXCEPT !.cur_bit = c],
                           more |-> c # 0, x |-> {lsb}]
        ELSE [a |-> a, more |-> TRUE, x |-> {}]

\* a drain that reclaims the bits and leaves the cursor where it is
drain_cell_keep(a, i) ==
    LET x == Word(a.xbs, i)
        xg == {b + i * W : b \in x}
    IN  IF x # {}
        THEN LET bs1 == a.bs \ xg
                 lsb == find_lsb(x) + i * W
                 r == rfind(bs1, a.cur_bit)
                 a1 == [a EXCEPT !.xbs = @ \ xg, !.bs = bs1]
             IN  [a |-> a1, more |-> r < lsb /\ r >= 0, x |-> xg]
        ELSE [a |-> a, more |-> TRUE, x |-> {}]

\* a drain that clears the bits in bs and leaves them set in xbs
drain_cell_bs(a, i) ==
    LET x == Word(a.xbs, i)
        xg == {b + i * W : b \in x}
    IN  IF x # {}
        THEN LET bs1 == a.bs \ xg
                 lsb == find_lsb(x) + i * W
                 r == rfind(bs1, a.cur_bit)
                 a1 == [a EXCEPT !.bs = bs1]
             IN  IF r >= lsb
                 THEN [a |-> a1, more |-> FALSE, x |-> xg]
                 ELSE LET c == IF r >= 0 THEN lsb ELSE 0
                      IN  [a |-> [a1 EXCEPT !.cur_bit = c],
                           more |-> c # 0, x |-> xg]
        ELSE [a |-> a, more |-> TRUE, x |-> {}]

\* One iteration (cell i) of the drain loop of try_hard_alloc.  more is
\* FALSE when the loop breaks.
drain_cell(a, i) ==
    LET x == Word(a.xbs, i)
        xg == {b + i * W : b \in x}
    IN  IF x # {}
        THEN LET bs1 == a.bs \ xg
                 lsb == find_lsb(x) + i * W
                 r == rfind(bs1, a.cur_bit)
                 a1 == [a EXCEPT !.xbs = @ \ xg, !.bs = bs1]
             IN  IF r >= lsb
                 THEN [a |-> a1, more |-> FALSE, x |-> xg]
                 ELSE LET c == IF r >= 0 THEN lsb ELSE 0
                      IN  [a |-> [a1 EXCEPT !.cur_bit = c],
                           more |-> c # 0, x |-> xg]
        ELSE [a |-> a, more |-> TRUE, x |-> {}]

\* ------------------------------------------------------------------- state
Threads == 0 .. 2

VARIABLES
    hb,       \* HugeBlock headers, by base address of the reservation
    lb,       \* LargeBlock headers, by address of their Large unit
    la,       \* LargeAlloc headers and bitmaps, by address of their Large unit
    sa,       \* SmallAlloc headers and bitmaps, by address of their Small unit
    ta,       \* ThreadAlloc: the list heads _lb, _la, _sa of each thread
    gx,       \* GlobalAlloc::_x: per shard, the mutex holder and the HB list
    vm,       \* VM layer: reserved HB ranges, committed Large units
    objs,     \* the (pointer, size) pairs the callers hold or have foreign-freed
    th,       \* per thread: position in the running call, its locals, its result
    crashed,  \* "" while the process runs, else the fault that ended it
    wl,       \* the workload: which threads call what, with which sizes
    na        \* number of alloc/realloc calls issued so far

vars == <<hb, lb, la, sa, ta, gx, vm, objs, th, crashed, wl, na>>

World ==
    [hb |-> hb, lb |-> lb, la |-> la, sa |-> sa, ta |-> ta, gx |-> gx,
     vm |-> vm, objs |-> objs, th |-> th, crashed |-> crashed]

Set(w) ==
    /\ hb' = w.hb /\ lb' = w.lb /\ la' = w.la /\ sa' = w.sa /\ ta' = w.ta
    /\ gx' = w.gx /\ vm' = w.vm /\ objs' = w.objs /\ th' = w.th
    /\ crashed' = w.crashed

Th0 ==
    [pc |-> "idle", op |-> "none", n |-> 0, p |-> NULL, o |-> 0, u |-> 0,
     k |-> NULL, h |-> NULL, i |-> 0, c |-> 0, lu |-> NULL, par |-> NULL,
     want |-> "", tier |-> "", x |-> NULL, ret |-> NULL, hit |-> "",
     oom |-> FALSE, h0 |-> NULL, hxf |-> FALSE, cur |-> FALSE,
     top |-> FALSE, fit |-> FALSE, idx |-> 0, xs0 |-> {},
     got |-> {}]

Shard(t) == t % g_array_size

Crash(w, why) == [w EXCEPT !.crashed = why]

\* the call of thread t returns ret
Return(w, t, ret, hit) ==
    LET me == w.th[t]
    IN  [w EXCEPT !.th[t] = [Th0 EXCEPT !.op = me.op, !.n = me.n, !.p = me.p,
                                        !.o = me.o, !.ret = ret, !.hit = hit,
                                        !.oom = me.oom, !.h0 = me.h0,
                                        !.hxf = me.hxf, !.cur = me.cur,
                                        !.top = me.top,
                                        !.fit = me.fit, !.idx = me.idx]]

Obj(p, n, st) == [p |-> p, n |-> n, st |-> st]

\* the caller receives p for a request of n bytes; a pointer that is handed
\* out while a caller still holds it is recorded as "dup"
Hold(w, p, n) ==
    [w EXCEPT !.objs = @ \cup {Obj(p, n, "held")} \cup
                       {Obj(p, n, "dup") : o \in {x \in w.objs :
                            x.p = p /\ x.st \in {"held", "busy"}}}]

\* ------------------------------------------------------- GlobalAlloc::free
\* ThreadAlloc::free and the free at the end of ThreadAlloc::realloc end here
FreeEnd(w, t) ==
    LET me == w.th[t]
    IN  IF me.op = "realloc"
        THEN Return(Hold(w, me.x, me.n), t, me.x, me.hit)
        ELSE Return(w, t, NULL, "")

\* a GlobalAlloc::free that goes for the mutex without the decommit
GlobalAlloc_free_begin_locked(w, t, p, parent) ==
    [w EXCEPT !.th[t].pc = "f_lock", !.th[t].lu = p, !.th[t].par = parent]

GlobalAlloc_free_begin(w, t, p, parent) ==
    [w EXCEPT !.th[t].pc = "f_decommit", !.th[t].lu = p, !.th[t].par = parent]

\* _vm_decommit(p, 1u << g_lb_bits): the unit's memory reads as zero again
Within(a, base, size) == base <= a /\ a < base + size

\* a free path that leaves the unit committed
vm_decommit_none(w, p) == w

vm_decommit(w, p) ==
    [w EXCEPT !.vm.committed = @ \ {p},
              !.lb = [a \in DOMAIN @ \ {p} |-> @[a]],
              !.la = [a \in DOMAIN @ \ {p} |-> @[a]],
              !.sa = [a \in {b \in DOMAIN @ : ~Within(b, p, LB_SIZE)} |-> @[a]]]

\* a GlobalAlloc::free that releases an emptied HugeBlock even when it is
\* the head of the shard's list
GlobalAlloc_free_locked_head(w, t) ==
    LET me == w.th[t]
        s == Shard(t)
        head == w.gx[s].hb
    IN  IF me.par \notin DOMAIN w.hb
        THEN Crash(w, "GlobalAlloc::free: hb was released")
        ELSE
        LET fr == HugeBlock_free(w.hb[me.par], me.lu)
            hb1 == [w.hb EXCEPT ![me.par] = fr.h]
            e == IF fr.r THEN list_erase(hb1, head, me.par)
                 ELSE [f |-> hb1, l |-> head, ok |-> TRUE]
            w1 == [w EXCEPT !.hb = e.f, !.gx[s].mtx = NoThread]
        IN  IF ~e.ok THEN Crash(w, "list_erase: nil link")
            ELSE IF fr.r THEN [w1 EXCEPT !.th[t].pc = "f_vmfree"]
            ELSE FreeEnd(w1, t)

GlobalAlloc_free_locked(w, t) ==
    LET me == w.th[t]
        s == Shard(t)
        head == w.gx[s].hb
    IN  IF me.par \notin DOMAIN w.hb
        THEN Crash(w, "GlobalAlloc::free: hb was released")
        ELSE
        LET fr == HugeBlock_free(w.hb[me.par], me.lu)
            hb1 == [w.hb EXCEPT ![me.par] = fr.h]
            r == fr.r /\ me.par # head
            e == IF r THEN list_erase(hb1, head, me.par)
                 ELSE [f |-> hb1, l |-> head, ok |-> TRUE]
            w1 == [w EXCEPT !.hb = e.f, !.gx[s].mtx = NoThread]
        IN  IF ~e.ok THEN Crash(w, "list_erase: nil link")
            ELSE IF r THEN [w1 EXCEPT !.th[t].pc = "f_vmfree"]
            ELSE FreeEnd(w1, t)

vm_free(w, x) ==
    [w EXCEPT !.vm.reserved = @ \ {x},
              !.hb = [a \in DOMAIN @ \ {x} |-> @[a]]]

\* ------------------------------------------------------- ThreadAlloc::free
GiveUp(w, p, owner) ==
    LET o == CHOOSE x \in w.objs : x.p = p /\ x.st # "xfreed"
    IN  IF owner THEN [w EXCEPT !.objs = @ \ {o}]
        ELSE [w EXCEPT !.objs = (@ \ {o}) \cup {[o EXCEPT !.st = "xfreed"]}]

ThreadAlloc_free_small(w, t, p) ==
    LET a == align_down(p, SB_SIZE)
    IN  IF a \notin DOMAIN w.sa THEN Crash(w, "free: no SmallAlloc header")
        ELSE IF w.sa[a].ta = t
        THEN LET fr == SmallAlloc_free(w.sa[a], p)
                 w1 == GiveUp([w EXCEPT !.sa[a] = fr.a], p, TRUE)
             IN  IF fr.r /\ a # w.ta[t].sa
                 THEN LET e == list_erase(w1.sa, w.ta[t].sa, a)
                          b == w1.sa[a].parent
                      IN  IF ~e.ok THEN Crash(w, "list_erase: nil link")
                          ELSE IF b \notin DOMAIN w.lb
                          THEN Crash(w, "free: no LargeBlock header")
                          ELSE
                          LET lf == LargeBlock_free(w.lb[b], a)
                              w2 == [w1 EXCEPT !.sa = e.f, !.lb[b] = lf.b]
                          IN  IF lf.r /\ b # w.ta[t].lb
                              THEN LET e2 == list_erase(w2.lb, w.ta[t].lb, b)
                                   IN  IF ~e2.ok
                                       THEN Crash(w, "list_erase: nil link")
                                       ELSE GlobalAlloc_free_begin(
                                              [w2 EXCEPT !.lb = e2.f], t, b,
                                              w2.lb[b].parent)
                              ELSE FreeEnd(w2, t)
                 ELSE FreeEnd(w1, t)
        ELSE FreeEnd(GiveUp([w EXCEPT !.sa[a] = SmallAlloc_xfree(@, p)],
                            p, FALSE), t)

ThreadAlloc_free_large(w, t, p) ==
    LET a == align_down(p, LB_SIZE)
    IN  IF a \notin DOMAIN w.la THEN Crash(w, "free: no LargeAlloc header")
        ELSE IF w.la[a].ta = t
        THEN LET fr == LargeAlloc_free(w.la[a], p)
                 w1 == GiveUp([w EXCEPT !.la[a] = fr.a], p, TRUE)
             IN  IF fr.r /\ a # w.ta[t].la
                 THEN LET e == list_erase(w1.la, w.ta[t].la, a)
                      IN  IF ~e.ok THEN Crash(w, "list_erase: nil link")
                          ELSE GlobalAlloc_free_begin(
                                 [w1 EXCEPT !.la = e.f], t, a, w1.la[a].parent)
                 ELSE FreeEnd(w1, t)
        ELSE FreeEnd(GiveUp([w EXCEPT !.la[a] = LargeAlloc_xfree(@, p)],
                            p, FALSE), t)

ThreadAlloc_free(w, t, p, n) ==
    IF n <= SMALL_MAX THEN ThreadAlloc_free_small(w, t, p)
    ELSE ThreadAlloc_free_large(w, t, p)

\* ------------------------------------------------------ ThreadAlloc::alloc
\* ThreadAlloc::alloc returns p; inside realloc it is followed by
\* memcpy and free(p, o) when p is not nil
AllocEnd(w, t, p, hit) ==
    LET me == w.th[t]
    IN  IF me.op = "realloc"
        THEN IF p # NULL
             THEN ThreadAlloc_free(
                    [w EXCEPT !.th[t].x = p, !.th[t].hit = hit], t, me.p, me.o)
             ELSE LET o == CHOOSE x \in w.objs : x.p = me.p /\ x.st = "busy"
                  IN  Return([w EXCEPT !.objs = (@ \ {o}) \cup
                                           {[o EXCEPT !.st = "held"]}],
                             t, NULL, hit)
        ELSE Return(IF p # NULL THEN Hold(w, p, me.n) ELSE w, t, p, hit)

GlobalAlloc_alloc_begin(w, t, want) ==
    [w EXCEPT !.th[t].pc = "g_lock", !.th[t].want = want]

\* placement new of a SmallAlloc at x: the bitmaps keep what memory holds
NewSA(w, x, parent, t) ==
    LET bs == IF x \in DOMAIN w.sa THEN w.sa[x].bs ELSE {}
        xbs == IF x \in DOMAIN w.sa THEN w.sa[x].xbs ELSE {}
        a == SmallAlloc_new(x, parent, t, bs, xbs)
    IN  [w EXCEPT !.sa = [y \in DOMAIN @ \cup {x} |->
                             IF y = x THEN a ELSE @[y]]]

\* the loop of _try_alloc(l, 4) over the LB list, lines 710-716
RECURSIVE lb_scan(_, _, _, _, _)
lb_scan(w, t, k, h, i) ==
    IF i < 4 /\ k # h
    THEN IF k \notin DOMAIN w.lb THEN Crash(w, "_try_alloc: nil link")
         ELSE
         LET mk == LargeBlock_alloc(w.lb[k])
         IN  IF mk.p # NULL
             THEN LET w1 == NewSA([w EXCEPT !.lb[k] = mk.b], mk.p, k, t)
                      m == list_move_front(w1.lb, w1.ta[t].lb, k)
                      al == SmallAlloc_alloc(w1.sa[mk.p], w.th[t].u)
                  IN  IF ~m.ok THEN Crash(w, "list_move_front: nil link")
                      ELSE AllocEnd([w1 EXCEPT !.lb = m.f, !.ta[t].lb = m.l,
                                               !.sa[mk.p] = al.a],
                                    t, al.p, "lbscan")
             ELSE lb_scan(w, t, w.lb[k].next, h, i + 1)
    ELSE GlobalAlloc_alloc_begin(w, t, "lb")

\* lines 701-727 up to the call of make_large_block
small_lb(w, t) ==
    LET b == w.ta[t].lb
        mk == IF b # NULL THEN LargeBlock_alloc(w.lb[b]) ELSE [p |-> NULL]
    IN  IF b # NULL /\ mk.p # NULL
        THEN LET w1 == NewSA([w EXCEPT !.lb[b] = mk.b], mk.p, b, t)
                 ps == list_push_front(w1.sa, w1.ta[t].sa, mk.p)
                 al == SmallAlloc_alloc(ps.f[mk.p], w.th[t].u)
             IN  AllocEnd([w1 EXCEPT !.sa = [ps.f EXCEPT ![mk.p] = al.a],
                                     !.ta[t].sa = ps.l],
                          t, al.p, "newsa")
        ELSE IF b # NULL /\ w.lb[b].next # NULL
        THEN LET k == w.lb[b].next
                 mv == list_move_head_back(w.lb, b)
             IN  IF ~mv.ok THEN Crash(w, "list_move_head_back: nil link")
                 ELSE lb_scan([w EXCEPT !.lb = mv.f, !.ta[t].lb = mv.l],
                              t, k, b, 0)
        ELSE GlobalAlloc_alloc_begin(w, t, "lb")

\* a scan that does not stop at the old head
scan_next_all(w, t, k, i) ==
    LET me == w.th[t]
        small == me.tier = "small"
        f == IF small THEN w.sa ELSE w.la
    IN  IF i < (IF small THEN 2 ELSE 4) /\ k # NULL
        THEN IF k \notin DOMAIN f THEN Crash(w, "_try_alloc: nil link")
             ELSE [w EXCEPT !.th[t].pc = "drain", !.th[t].k = k,
                            !.th[t].i = i, !.th[t].c = f[k].cur_bit \div W,
                            !.th[t].xs0 = f[k].xbs, !.th[t].got = {}]
        ELSE IF small THEN small_lb(w, t)
        ELSE GlobalAlloc_alloc_begin(w, t, "la")

\* the head of the loop of _try_alloc(l, n) over the SA (n = 2) or LA
\* (n = 4) list: enter try_hard_alloc on k, or leave the loop; xs0 is
\* what xbs of k holds when try_hard_alloc is entered, got the bits that
\* the drain loop has cleared since
scan_next(w, t, k, i) ==
    LET me == w.th[t]
        small == me.tier = "small"
        f == IF small THEN w.sa ELSE w.la
    IN  IF i < (IF small THEN 2 ELSE 4) /\ k # me.h
        THEN IF k \notin DOMAIN f THEN Crash(w, "_try_alloc: nil link")
             ELSE [w EXCEPT !.th[t].pc = "drain", !.th[t].k = k,
                            !.th[t].i = i, !.th[t].c = f[k].cur_bit \div W,
                            !.th[t].xs0 = f[k].xbs, !.th[t].got = {}]
        ELSE IF small THEN small_lb(w, t)
        ELSE GlobalAlloc_alloc_begin(w, t, "la")

\* one cell of the drain loop of try_hard_alloc(u) on k and, when the loop
\* ends, its bump allocation and the rest of the _try_alloc iteration
try_hard_alloc_step(w, t) ==
    LET me == w.th[t]
        small == me.tier = "small"
        f == IF small THEN w.sa ELSE w.la
        sz == IF small THEN 16 ELSE PAGE
        d == drain_cell(f[me.k], me.c)
        gone == {o \in w.objs :
                   /\ o.st = "xfreed"
                   /\ (o.n <= SMALL_MAX) = small
                   /\ align_down(o.p, IF small THEN SB_SIZE ELSE LB_SIZE) = me.k
                   /\ (o.p - d.a.p) \div sz \in d.x}
        f1 == [f EXCEPT ![me.k] = d.a]
        w1 == IF small THEN [w EXCEPT !.sa = f1, !.objs = @ \ gone]
              ELSE [w EXCEPT !.la = f1, !.objs = @ \ gone]
    IN  IF d.more /\ me.c - 1 >= 0
        THEN [w1 EXCEPT !.th[t].c = me.c - 1, !.th[t].got = @ \cup d.x]
        ELSE LET al == IF small THEN SmallAlloc_alloc(d.a, me.u)
                       ELSE LargeAlloc_alloc(d.a, me.u)
                 head == IF small THEN w.ta[t].sa ELSE w.ta[t].la
             IN  IF al.p # NULL
                 THEN LET m == list_move_front([f1 EXCEPT ![me.k] = al.a],
                                               head, me.k)
                          w2 == IF small
                                THEN [w1 EXCEPT !.sa = m.f, !.ta[t].sa = m.l]
                                ELSE [w1 EXCEPT !.la = m.f, !.ta[t].la = m.l]
                      IN  IF ~m.ok THEN Crash(w, "list_move_front: nil link")
                          ELSE AllocEnd(w2, t, al.p, "scan")
                 ELSE scan_next(w1, t, f1[me.k].next, me.i + 1)

\* lines 683-699 (small tier) and 729-742 (large tier): the current
\* allocator, then the start of the scan
ThreadAlloc_alloc(w0, t, n) ==
    LET small == n <= SMALL_MAX
        u == IF small THEN (IF n > 16 THEN align_up(n, 16) \div 16 ELSE 1)
             ELSE align_up(n, PAGE) \div PAGE
        w == [w0 EXCEPT !.th[t].u = u,
                        !.th[t].tier = IF small THEN "small" ELSE "large"]
        f == IF small THEN w.sa ELSE w.la
        head == IF small THEN w.ta[t].sa ELSE w.ta[t].la
        al == IF head # NULL
              THEN (IF small THEN SmallAlloc_alloc(f[head], u)
                    ELSE LargeAlloc_alloc(f[head], u))
              ELSE [p |-> NULL]
    IN  IF head # NULL /\ al.p # NULL
        THEN AllocEnd(IF small THEN [w EXCEPT !.sa[head] = al.a]
                      ELSE [w EXCEPT !.la[head] = al.a], t, al.p, "fast")
        ELSE IF head # NULL /\ f[head].next # NULL
        THEN LET k == f[head].next
                 mv == list_move_head_back(f, head)
                 w1 == IF small THEN [w EXCEPT !.sa = mv.f, !.ta[t].sa = mv.l]
                       ELSE [w EXCEPT !.la = mv.f, !.ta[t].la = mv.l]
             IN  IF ~mv.ok THEN Crash(w, "list_move_head_back: nil link")
                 ELSE scan_next([w1 EXCEPT !.th[t].h = head], t, k, 0)
        ELSE IF small THEN small_lb(w, t)
        ELSE GlobalAlloc_alloc_begin(w, t, "la")

\* ------------------------------------------------------ GlobalAlloc::alloc
MaxHB == 2

\* the address ranges the VM layer can hand out: odd slots are aligned to
\* a Large unit, even slots only to a page
VMBase(h) == h * 2 * HB_SIZE + (IF h % 2 = 0 THEN PAGE ELSE 0)

FreeSlots(w) == {h \in 1 .. MaxHB : VMBase(h) \notin w.vm.reserved}

\* the fault of a HugeBlock constructed at the address of a failed mmap
Reserve_failed == "make_huge_block: HugeBlock built at MAP_FAILED"

\* _vm_reserve: out is what the platform answers
vm_reserve(w, out) ==
    IF out = "ok" THEN VMBase(Min(FreeSlots(w)))
    ELSE IF out = "null" THEN NULL
    ELSE MAP_FAILED

\* the loop of _try_alloc(l, 8) over the HB list, lines 498-504
RECURSIVE hb_scan(_, _, _, _, _)
hb_scan(f, l, k, h, i) ==
    IF i < 8 /\ k # h
    THEN IF k \notin DOMAIN f
         THEN [f |-> f, l |-> l, p |-> NULL, parent |-> NULL, ok |-> FALSE]
         ELSE LET a == HugeBlock_alloc(f[k])
              IN  IF a.p # NULL
                  THEN LET m == list_move_front([f EXCEPT ![k] = a.h], l, k)
                       IN  [f |-> m.f, l |-> m.l, p |-> a.p, parent |-> k,
                            ok |-> m.ok]
                  ELSE hb_scan(f, l, f[k].next, h, i + 1)
    ELSE [f |-> f, l |-> l, p |-> NULL, parent |-> NULL, ok |-> TRUE]

\* the end of the locked block: p and *parent are set, the mutex is freed
GlobalAlloc_alloc_unlock(w, t, p, parent) ==
    LET w1 == [w EXCEPT !.gx[Shard(t)].mtx = NoThread]
    IN  IF p # NULL
        THEN [w1 EXCEPT !.th[t].pc = "g_commit", !.th[t].lu = p,
                        !.th[t].par = parent]
        ELSE AllocEnd(w1, t, NULL, "nil")

\* make_huge_block and lines 508-514
make_huge_block(w, t, out) ==
    LET x == vm_reserve(w, out)
        s == Shard(t)
    IN  IF x = NULL
        THEN GlobalAlloc_alloc_unlock([w EXCEPT !.th[t].oom = TRUE], t,
                                      NULL, NULL)
        ELSE IF x = MAP_FAILED
        THEN Crash(w, Reserve_failed)
        ELSE LET up == align_up(x, LB_SIZE)
                 p == IF up = x THEN x + LB_SIZE ELSE up
                 f == [y \in DOMAIN w.hb \cup {x} |->
                          IF y = x THEN HugeBlock_new(p) ELSE w.hb[y]]
                 ps == list_push_front(f, w.gx[s].hb, x)
                 a == HugeBlock_alloc(ps.f[x])
             IN  GlobalAlloc_alloc_unlock(
                   [w EXCEPT !.vm.reserved = @ \cup {x},
                             !.hb = [ps.f EXCEPT ![x] = a.h],
                             !.gx[s].hb = ps.l],
                   t, a.p, x)

\* lines 490-515, the block under the shard's mutex
GlobalAlloc_alloc_locked(w, t, out) ==
    LET s == Shard(t)
        head == w.gx[s].hb
        a == IF head # NULL THEN HugeBlock_alloc(w.hb[head]) ELSE [p |-> NULL]
    IN  IF head # NULL /\ a.p # NULL
        THEN GlobalAlloc_alloc_unlock([w EXCEPT !.hb[head] = a.h], t, a.p, head)
        ELSE
        LET sc == IF head # NULL /\ w.hb[head].next # NULL
                  THEN LET mv == list_move_head_back(w.hb, head)
                       IN  hb_scan(mv.f, mv.l, w.hb[head].next, head, 0)
                  ELSE [f |-> w.hb, l |-> head, p |-> NULL, parent |-> NULL,
                        ok |-> TRUE]
            w1 == [w EXCEPT !.hb = sc.f, !.gx[s].hb = sc.l]
        IN  IF ~sc.ok THEN Crash(w, "list: nil link")
            ELSE IF sc.p # NULL
            THEN GlobalAlloc_alloc_unlock(w1, t, sc.p, sc.parent)
            ELSE make_huge_block(w1, t, out)

\* line 518 and make_large_block / make_large_alloc, then the rest of
\* ThreadAlloc::alloc (lines 720-725 and 745-748)
GlobalAlloc_alloc_commit(w, t) ==
    LET me == w.th[t]
        x == me.lu
        w1 == [w EXCEPT !.vm.committed = @ \cup {x}]
    IN  IF me.want = "lb"
        THEN LET f == [y \in DOMAIN w.lb \cup {x} |->
                          IF y = x THEN LargeBlock_new(x, me.par) ELSE w.lb[y]]
                 ps == list_push_front(f, w.ta[t].lb, x)
                 mk == LargeBlock_alloc(ps.f[x])
                 w2 == NewSA([w1 EXCEPT !.lb = [ps.f EXCEPT ![x] = mk.b],
                                        !.ta[t].lb = ps.l], mk.p, x, t)
                 pa == list_push_front(w2.sa, w2.ta[t].sa, mk.p)
                 al == SmallAlloc_alloc(pa.f[mk.p], me.u)
             IN  AllocEnd([w2 EXCEPT !.sa = [pa.f EXCEPT ![mk.p] = al.a],
                                     !.ta[t].sa = pa.l],
                          t, al.p, "newlb")
        ELSE LET f == [y \in DOMAIN w.la \cup {x} |->
                          IF y = x THEN LargeAlloc_new(x, me.par, t)
                          ELSE w.la[y]]
                 ps == list_push_front(f, w.ta[t].la, x)
                 al == LargeAlloc_alloc(ps.f[x], me.u)
             IN  AllocEnd([w1 EXCEPT !.la = [ps.f EXCEPT ![x] = al.a],
                                     !.ta[t].la = ps.l],
                          t, al.p, "newla")

\* ---------------------------------------------------- ThreadAlloc::realloc
ReallocSame(w, t, p, hit) ==
    LET me == w.th[t]
        o == CHOOSE x \in w.objs : x.p = p /\ x.st = "busy"
    IN  Return([w EXCEPT !.objs = (@ \ {o}) \cup {Obj(p, me.n, "held")}],
               t, p, hit)

ThreadAlloc_realloc(w, t, p, o, n) ==
    IF o <= SMALL_MAX
    THEN LET k == IF o > 16 THEN align_up(o, 16) ELSE 16
             a == align_down(p, SB_SIZE)
             l == align_up(n, 16)
             x == IF a = w.ta[t].sa /\ n <= SMALL_MAX
                  THEN SmallAlloc_realloc(w.sa[a], p, k \div 16, l \div 16)
                  ELSE [p |-> NULL]
         IN  IF n <= k THEN ReallocSame(w, t, p, "fits")
             ELSE IF x.p # NULL
             THEN ReallocSame([w EXCEPT !.sa[a] = x.a], t, p, "inplace")
             ELSE ThreadAlloc_alloc(w, t, n)
    ELSE LET k == align_up(o, PAGE)
             a == align_down(p, LB_SIZE)
             l == align_up(n, PAGE)
             x == IF a = w.ta[t].la /\ n <= g_max_alloc_size
                  THEN LargeAlloc_realloc(w.la[a], p, k \div PAGE, l \div PAGE)
                  ELSE [p |-> NULL]
         IN  IF n <= k THEN ReallocSame(w, t, p, "fits")
             ELSE IF x.p # NULL
             THEN ReallocSame([w EXCEPT !.la[a] = x.a], t, p, "inplace")
             ELSE ThreadAlloc_alloc(w, t, n)

\* ------------------------------------------------- what a call starts from
\* the rounding of a size to units, lines 684, 730, 802 and 814
Units(n) ==
    IF n <= SMALL_MAX THEN (IF n > 16 THEN align_up(n, 16) \div 16 ELSE 1)
    ELSE align_up(n, PAGE) \div PAGE

SlotSize(n) == IF n <= SMALL_MAX THEN 16 ELSE PAGE

\* the SmallAlloc or LargeAlloc header that free and realloc derive from
\* the pointer and the size, lines 763, 779, 805 and 817
HeaderOf(p, n) ==
    align_down(p, IF n <= SMALL_MAX THEN SB_SIZE ELSE LB_SIZE)

Header(w, p, n) ==
    IF n <= SMALL_MAX THEN w.sa[HeaderOf(p, n)] ELSE w.la[HeaderOf(p, n)]

IndexOf(w, p, n) == (p - Header(w, p, n).p) \div SlotSize(n)

SlotsOf(w, p, n) == IndexOf(w, p, n) .. IndexOf(w, p, n) + Units(n) - 1

Current(w, t, n) == IF n <= SMALL_MAX THEN w.ta[t].sa ELSE w.ta[t].la

MAX_bIT(n) == IF n <= SMALL_MAX THEN SA_MAX_bIT ELSE LA_MAX_bIT

\* the objects of the tier of size n that lie in the allocator at a
ObjectsIn(w, a, n) ==
    {o \in w.objs : (o.n <= SMALL_MAX) = (n <= SMALL_MAX)
                      /\ HeaderOf(o.p, o.n) = a}

\* the objects of the allocator cover [0, cur_bit) with no hole and none
\* of them was freed by a foreign thread
Tiled(w, a, n) ==
    /\ \A o \in ObjectsIn(w, a, n) : o.st # "xfreed"
    /\ UNION {SlotsOf(w, o.p, o.n) : o \in ObjectsIn(w, a, n)}
          = 0 .. Header(w, a, n).cur_bit - 1

\* alloc(n) by t: the current allocator of the tier and whether it holds
\* foreign-freed slots that were not drained
AllocFrom(w, t, n) ==
    LET h == Current(w, t, n)
    IN  [Th0 EXCEPT !.op = "alloc", !.n = n, !.h0 = h,
                    !.hxf = h # NULL /\ Header(w, h, n).xbs # {}]

\* free(p, n) by t: whether the owner frees the topmost object of an
\* allocator whose objects are tiled
FreeFrom(w, t, p, n) ==
    IF HeaderOf(p, n) \notin DOMAIN (IF n <= SMALL_MAX THEN w.sa ELSE w.la)
    THEN [Th0 EXCEPT !.op = "free", !.n = n, !.p = p]
    ELSE
    LET a == Header(w, p, n)
        i == IndexOf(w, p, n)
    IN  [Th0 EXCEPT !.op = "free", !.n = n, !.p = p, !.idx = i,
                    !.cur = HeaderOf(p, n) = Current(w, t, n),
                    !.top = /\ a.ta = t
                            /\ a.cur_bit = i + Units(n)
                            /\ Tiled(w, HeaderOf(p, n), n)]

\* realloc(p, o, n) by t: whether the object is in the current allocator,
\* is its topmost object, and whether n fits above it in the same tier
ReallocFrom(w, t, p, o, n) ==
    IF HeaderOf(p, o) \notin DOMAIN (IF o <= SMALL_MAX THEN w.sa ELSE w.la)
    THEN [AllocFrom(w, t, n) EXCEPT !.op = "realloc", !.p = p, !.o = o]
    ELSE
    LET a == Header(w, p, o)
        i == IndexOf(w, p, o)
        c == HeaderOf(p, o) = Current(w, t, o)
    IN  [AllocFrom(w, t, n) EXCEPT
           !.op = "realloc", !.p = p, !.o = o, !.idx = i, !.cur = c,
           !.top = c /\ a.cur_bit = i + Units(o),
           !.fit = /\ (o <= SMALL_MAX) = (n <= SMALL_MAX)
                   /\ i + Units(n) <= MAX_bIT(o)]

\* ------------------------------------------------------------ the workload
\* A workload names the threads that allocate (thr), the threads that free
\* (frs), the request sizes, whether realloc is called (re), whether the
\* VM reserve may fail while address space is left (oom), and the number
\* of alloc and realloc calls (maxa).  In turn: one producer and a foreign
\* consumer in the small tier; one thread filling SmallAllocs and
\* LargeBlocks; two threads of one shard in the large tier; realloc in the
\* small tier; realloc across tiers with failing reserves; two threads of
\* two shards with failing reserves.
MaxHold == 5
MaxFill == 8
MaxShared == 5
MaxGrow == 4
MaxLarge == 5
MaxShards == 3

Workloads ==
    {[thr |-> {0}, frs |-> {0, 2}, sizes |-> {16, 64}, re |-> FALSE,
      oom |-> FALSE, maxa |-> MaxHold],
     [thr |-> {0}, frs |-> {0}, sizes |-> {64}, re |-> FALSE,
      oom |-> FALSE, maxa |-> MaxFill],
     [thr |-> {0, 2}, frs |-> {0, 2}, sizes |-> {256}, re |-> FALSE,
      oom |-> FALSE, maxa |-> MaxShared],
     [thr |-> {0}, frs |-> {0}, sizes |-> {8, 16, 32, 64}, re |-> TRUE,
      oom |-> FALSE, maxa |-> MaxGrow],
     [thr |-> {0}, frs |-> {0}, sizes |-> {16, 128, 256}, re |-> TRUE,
      oom |-> TRUE, maxa |-> MaxLarge],
     [thr |-> {0, 1}, frs |-> {0, 1}, sizes |-> {64}, re |-> FALSE,
      oom |-> TRUE, maxa |-> MaxShards]}

\* ----------------------------------------------------------------- actions
Init ==
    /\ hb = [a \in {} |-> 0]
    /\ lb = [a \in {} |-> 0]
    /\ la = [a \in {} |-> 0]
    /\ sa = [a \in {} |-> 0]
    /\ ta = [t \in Threads |-> [lb |-> NULL, la |-> NULL, sa |-> NULL]]
    /\ gx = [s \in 0 .. g_array_size - 1 |-> [mtx |-> NoThread, hb |-> NULL]]
    /\ vm = [reserved |-> {}, committed |-> {}]
    /\ objs = {}
    /\ th = [t \in Threads |-> Th0]
    /\ crashed = ""
    /\ wl \in Workloads
    /\ na = 0

Idle(t) == crashed = "" /\ th[t].pc = "idle"
At(t, pc) == crashed = "" /\ th[t].pc = pc

\* alloc(n) called by thread t
Alloc(t, n) ==
    /\ Idle(t) /\ t \in wl.thr /\ n \in wl.sizes /\ na < wl.maxa
    /\ Set(ThreadAlloc_alloc(
             [World EXCEPT !.th[t] = AllocFrom(World, t, n)], t, n))
    /\ na' = na + 1
    /\ UNCHANGED wl

\* free(p, n) called by thread t on an object a caller holds
Free(t, o) ==
    /\ Idle(t) /\ t \in wl.frs /\ o \in objs /\ o.st = "held"
    /\ Set(ThreadAlloc_free(
             [World EXCEPT !.th[t] = FreeFrom(World, t, o.p, o.n)],
             t, o.p, o.n))
    /\ UNCHANGED <<wl, na>>

\* realloc(p, o, n) called by thread t, n > o
Realloc(t, o, n) ==
    /\ Idle(t) /\ t \in wl.thr /\ wl.re /\ na < wl.maxa
    /\ o \in objs /\ o.st = "held" /\ n \in wl.sizes /\ n > o.n
    /\ Set(ThreadAlloc_realloc(
             [World EXCEPT !.th[t] = ReallocFrom(World, t, o.p, o.n, n),
                           !.objs = (@ \ {o}) \cup {[o EXCEPT !.st = "busy"]}],
             t, o.p, o.n, n))
    /\ na' = na + 1
    /\ UNCHANGED wl

\* the owner drains one cell of xbs in try_hard_alloc
Drain(t) ==
    /\ At(t, "drain")
    /\ Set(try_hard_alloc_step(World, t))
    /\ UNCHANGED <<wl, na>>

\* a thread that enters the locked block without taking the mutex
Lock_skip(t) ==
    /\ crashed = "" /\ th[t].pc \in {"g_lock", "f_lock"}
    /\ Set([World EXCEPT !.th[t].pc = IF @ = "g_lock" THEN "g_body"
                                      ELSE "f_body"])
    /\ UNCHANGED <<wl, na>>

\* std::lock_guard on the shard's mutex, in GlobalAlloc::alloc and ::free
Lock(t) ==
    /\ crashed = "" /\ th[t].pc \in {"g_lock", "f_lock"}
    /\ gx[Shard(t)].mtx = NoThread
    /\ Set([World EXCEPT !.gx[Shard(t)].mtx = t,
                         !.th[t].pc = IF @ = "g_lock" THEN "g_body"
                                      ELSE "f_body"])
    /\ UNCHANGED <<wl, na>>

GAllocLocked(t) ==
    /\ At(t, "g_body")
    /\ \E out \in {"ok", "null", "map_failed"} :
          /\ out = "ok" => FreeSlots(World) # {}
          /\ out # "ok" => wl.oom \/ FreeSlots(World) = {}
          /\ Set(GlobalAlloc_alloc_locked(World, t, out))
    /\ UNCHANGED <<wl, na>>

GAllocCommit(t) ==
    /\ At(t, "g_commit")
    /\ Set(GlobalAlloc_alloc_commit(World, t))
    /\ UNCHANGED <<wl, na>>

GFreeDecommit(t) ==
    /\ At(t, "f_decommit")
    /\ Set([vm_decommit(World, th[t].lu) EXCEPT !.th[t].pc = "f_lock"])
    /\ UNCHANGED <<wl, na>>

GFreeLocked(t) ==
    /\ At(t, "f_body")
    /\ Set(GlobalAlloc_free_locked(World, t))
    /\ UNCHANGED <<wl, na>>

GFreeRelease(t) ==
    /\ At(t, "f_vmfree")
    /\ Set(FreeEnd(vm_free(World, th[t].par), t))
    /\ UNCHANGED <<wl, na>>

Next ==
    \/ \E t \in Threads : \E n \in wl.sizes : Alloc(t, n)
    \/ \E t \in Threads : \E o \in objs : Free(t, o)
    \/ \E t \in Threads : \E o \in objs : \E n \in wl.sizes : Realloc(t, o, n)
    \/ \E t \in Threads : Drain(t)
    \/ \E t \in Threads : Lock(t)
    \/ \E t \in Threads : GAllocLocked(t)
    \/ \E t \in Threads : GAllocCommit(t)
    \/ \E t \in Threads : GFreeDecommit(t)
    \/ \E t \in Threads : GFreeLocked(t)
    \/ \E t \in Threads : GFreeRelease(t)

Spec == Init /\ [][Next]_vars

\* ------------------------------------------------------------- properties
\* the objects the callers hold, and the threads whose realloc has got its
\* new block and has not returned yet
HeldObjs == {o \in objs : o.st \in {"held", "busy"}}

Growing ==
    {t \in Threads : th[t].op = "realloc" /\ th[t].pc # "idle"
                      /\ th[t].x # NULL}

\* the bytes the allocator sets aside for a request of n bytes
Extent(n) == Units(n) * SlotSize(n)

Apart(p1, n1, p2, n2) == p1 + Extent(n1) <= p2 \/ p2 + Extent(n2) <= p1

Returned(t, op) == crashed = "" /\ th[t].pc = "idle" /\ th[t].op = op

\* C1: two objects that are live at the same time, whichever threads hold
\* them, occupy disjoint slot ranges; no alloc, scan or realloc returns or
\* extends a range that meets an object its holder has not freed.
C1_NonOverlap ==
    /\ \A o \in objs : o.st # "dup"
    /\ \A o1, o2 \in HeldObjs :
          o1 # o2 => Apart(o1.p, o1.n, o2.p, o2.n)
    /\ \A t \in Growing : \A o \in HeldObjs :
          Apart(th[t].x, th[t].n, o.p, o.n)
    /\ \A t1, t2 \in Growing :
          t1 # t2 => Apart(th[t1].x, th[t1].n, th[t2].x, th[t2].n)

\* a scan has drained an allocator that still holds a live object and has
\* served the request from the slot that another thread had freed
C1_Witness ==
    \E t \in Threads :
        /\ Returned(t, "alloc") /\ th[t].hit = "scan" /\ th[t].ret # NULL
        /\ \E t2 \in Threads \ {t} :
              Returned(t2, "free") /\ th[t2].p = th[t].ret
        /\ \E o \in HeldObjs :
              /\ o.p # th[t].ret
              /\ (o.n <= SMALL_MAX) = (th[t].n <= SMALL_MAX)
              /\ HeaderOf(o.p, o.n) = HeaderOf(th[t].ret, th[t].n)

\* C2: alloc returns nil exactly when the VM reserve failed during the
\* call: a call in which the reserve fails returns (nil), a call in which
\* it does not fail returns a pointer, and a call that carved a new
\* SmallAlloc, LargeBlock or LargeAlloc returns the first object of it.
C2_NilIffOom ==
    /\ crashed # Reserve_failed
    /\ \A t \in Threads :
          Returned(t, "alloc") =>
              /\ (th[t].ret = NULL) <=> th[t].oom
              /\ th[t].hit \in {"newsa", "lbscan", "newlb", "newla"} =>
                    /\ th[t].ret # NULL
                    /\ Header(World, th[t].ret, th[t].n).ta = t
                    /\ IndexOf(World, th[t].ret, th[t].n) = 0

\* C3: when the VM reserve fails, alloc and realloc return nil without
\* crashing, and no HugeBlock is reserved or listed by the failed call.
C3_OomReturnsNil ==
    /\ crashed # Reserve_failed
    /\ \A t \in Threads :
          th[t].pc = "idle" /\ th[t].oom =>
              /\ th[t].ret = NULL
              /\ vm.reserved = DOMAIN hb

\* no call is running
Quiet == crashed = "" /\ \A t \in Threads : th[t].pc = "idle"

\* the current head HugeBlock of each shard
Heads == {gx[s].hb : s \in 0 .. g_array_size - 1} \ {NULL}

\* the Large unit at u is one of the units of the HugeBlock at h
InHB(u, h) ==
    h \in DOMAIN hb /\ Within(u, hb[h].p, R * LB_SIZE)

UnitOf(p) == align_down(p, LB_SIZE)

\* the Large unit at u is the current LargeBlock or LargeAlloc of a thread,
\* holds the current SmallAlloc of a thread, or holds an object that a
\* foreign thread freed and no drain has reclaimed
Kept(u) ==
    \/ \E t \in Threads :
          \/ ta[t].lb = u
          \/ ta[t].la = u
          \/ ta[t].sa # NULL /\ UnitOf(ta[t].sa) = u
    \/ \E o \in objs : o.st = "xfreed" /\ UnitOf(o.p) = u

\* C4 as stated: once every object has been freed and no call runs, no
\* Large unit is committed outside the current head HugeBlock of a shard.
C4_RoundTrip ==
    Quiet /\ HeldObjs = {} =>
        \A u \in vm.committed : \E h \in Heads : InHB(u, h)

\* C4: once every object has been freed and no call runs, a Large unit
\* that is still committed outside the current head HugeBlocks is the
\* current LargeBlock or LargeAlloc of a thread, holds the current
\* SmallAlloc of a thread, or holds foreign-freed objects not yet drained.
C4_RoundTripKept ==
    Quiet /\ HeldObjs = {} =>
        \A u \in vm.committed : (\E h \in Heads : InHB(u, h)) \/ Kept(u)

\* everything was freed, a unit outside the head HugeBlock stays committed
\* as the current LargeAlloc of a thread, and other units have been
\* decommitted
C4_Witness ==
    /\ Quiet /\ objs = {} /\ na >= 4
    /\ \E u \in vm.committed :
          /\ ~ \E h \in Heads : InHB(u, h)
          /\ \E t \in Threads : ta[t].la = u
    /\ \E u \in DOMAIN hb : hb[u].bits # {} /\ u \notin Heads

\* C5 as stated: realloc of the topmost object B of the current allocator
\* to a size that fits returns B and sets cur_bit to the new end; realloc
\* of a non-topmost object A of the current allocator beyond its rounded
\* slot returns a pointer different from A and frees A.
C5_TailInPlace ==
    \A t \in Threads :
        Returned(t, "realloc") =>
            /\ th[t].top /\ th[t].fit =>
                  /\ th[t].ret = th[t].p
                  /\ Header(World, th[t].p, th[t].n).cur_bit
                        = th[t].idx + Units(th[t].n)
            /\ th[t].cur /\ ~th[t].top /\ th[t].n > Extent(th[t].o) =>
                  /\ th[t].ret # th[t].p
                  /\ ~ \E o \in HeldObjs : o.p = th[t].p

\* C5: as above, but when the VM reserve fails inside the realloc of A the
\* call returns nil and A stays allocated; otherwise the call returns a
\* new pointer, distinct from A, and A is freed.
C5_TailInPlaceOrNil ==
    \A t \in Threads :
        Returned(t, "realloc") =>
            /\ th[t].top /\ th[t].fit =>
                  /\ th[t].ret = th[t].p
                  /\ Header(World, th[t].p, th[t].n).cur_bit
                        = th[t].idx + Units(th[t].n)
            /\ th[t].cur /\ ~th[t].top /\ th[t].n > Extent(th[t].o) =>
                  IF th[t].oom
                  THEN /\ th[t].ret = NULL
                       /\ Obj(th[t].p, th[t].o, "held") \in objs
                  ELSE /\ th[t].ret \notin {NULL, th[t].p}
                       /\ Obj(th[t].ret, th[t].n, "held") \in objs
                       /\ ~ \E o \in HeldObjs : o.p = th[t].p

\* a realloc has grown the topmost object of the current SmallAlloc in
\* place above another live object
C5_Witness ==
    \E t \in Threads :
        /\ Returned(t, "realloc") /\ th[t].hit = "inplace"
        /\ th[t].top /\ th[t].fit /\ th[t].ret = th[t].p
        /\ th[t].n <= SMALL_MAX /\ th[t].idx > 0
        /\ \E o \in HeldObjs :
              o.p < th[t].p /\ HeaderOf(o.p, o.n) = HeaderOf(th[t].p, th[t].n)

\* C6 as stated: when the current allocator holds slots that another
\* thread has freed and cannot serve the request, the alloc returns a
\* pointer of that allocator and creates no new SmallAlloc.
C6_Reclaim ==
    \A t \in Threads :
        Returned(t, "alloc") /\ th[t].hxf /\ th[t].hit # "fast"
            /\ th[t].ret # NULL =>
                /\ HeaderOf(th[t].ret, th[t].n) = th[t].h0
                /\ th[t].hit \notin {"newsa", "lbscan", "newlb", "newla"}

\* C6: an alloc that the current allocator cannot serve never drains that
\* allocator: the pointer it returns lies in another allocator, one that
\* the scan reached or a new one, and the foreign-freed slots of the
\* allocator that was current stay in xbs.
C6_ReclaimElsewhere ==
    \A t \in Threads :
        Returned(t, "alloc") /\ th[t].h0 # NULL /\ th[t].hit # "fast"
            /\ th[t].ret # NULL =>
                /\ HeaderOf(th[t].ret, th[t].n) # th[t].h0
                /\ th[t].hxf => Header(World, th[t].h0, th[t].n).xbs # {}

\* the current SmallAlloc held foreign-freed slots, could not serve the
\* request, and the alloc returned an object of a new SmallAlloc
C6_Witness ==
    \E t \in Threads :
        /\ Returned(t, "alloc") /\ th[t].hxf /\ th[t].hit = "newsa"
        /\ th[t].ret # NULL /\ th[t].n <= SMALL_MAX
        /\ ta[t].sa = HeaderOf(th[t].ret, th[t].n)
        /\ sa[th[t].h0].xbs # {}

\* C7 as stated: when no call runs, a reserved HugeBlock that is not the
\* current head of a shard holds a live object.
C7_Release ==
    Quiet =>
        \A h \in vm.reserved :
            h \notin Heads => \E o \in HeldObjs : InHB(UnitOf(o.p), h)

\* C7: when no call runs, a reserved HugeBlock that is not the current
\* head of a shard has a unit in use, and each of its units in use is
\* committed and either holds a live object or is kept by a thread (its
\* current LargeBlock or LargeAlloc, the unit of its current SmallAlloc)
\* or by foreign-freed objects not yet drained.
C7_ReleaseWhenEmpty ==
    Quiet =>
        \A h \in vm.reserved :
            h \notin Heads =>
                /\ h \in DOMAIN hb /\ hb[h].bits # {}
                /\ \A i \in hb[h].bits :
                      LET u == hb[h].p + i * LB_SIZE
                      IN  /\ u \in vm.committed
                          /\ \/ \E o \in HeldObjs : UnitOf(o.p) = u
                             \/ Kept(u)

\* a HugeBlock that was full and not the head has been released after its
\* last unit was returned, and the shard goes on with its head
C7_Witness ==
    /\ Quiet /\ na >= 4
    /\ \E t \in Threads : Returned(t, "free") /\ th[t].n > SMALL_MAX
    /\ Cardinality(vm.reserved) = 1 /\ vm.reserved \subseteq Heads
    /\ \E h \in 1 .. MaxHB : VMBase(h) \notin vm.reserved
          /\ \E g \in vm.reserved : g > VMBase(h)

\* every SmallAlloc and LargeAlloc header in memory, with its MAX_bIT and
\* its unit size
Allocators ==
    {[a |-> sa[x], max |-> SA_MAX_bIT, sz |-> 16, n |-> 16, at |-> x] :
        x \in DOMAIN sa}
    \cup {[a |-> la[x], max |-> LA_MAX_bIT, sz |-> PAGE, n |-> PAGE * 2,
           at |-> x] : x \in DOMAIN la}

\* the owner of the allocator at x is inside try_hard_alloc on it
Draining(x) == \E t \in Threads : th[t].pc = "drain" /\ th[t].k = x

\* the free of thread t has returned and the allocator of the object is
\* still in memory as an allocator of t (it was not released and handed to
\* another thread since)
StillOwn(t) ==
    /\ HeaderOf(th[t].p, th[t].n)
          \in DOMAIN (IF th[t].n <= SMALL_MAX THEN sa ELSE la)
    /\ Header(World, th[t].p, th[t].n).ta = t

C9_CursorIsTop ==
    \A x \in Allocators :
        ~Draining(x.at) =>
            x.a.cur_bit = IF x.a.bs = {} THEN 0 ELSE Max(x.a.bs) + 1

\* C9: outside a drain, cur_bit is 0 exactly when bs is empty, and
\* otherwise it is at least one past the highest bit set in bs: above
\* that bit it also covers the further units of the topmost object and
\* the slots above it that were freed out of order.
C9_CursorPastTop ==
    \A x \in Allocators :
        ~Draining(x.at) =>
            /\ (x.a.cur_bit = 0) <=> (x.a.bs = {})
            /\ x.a.bs # {} => x.a.cur_bit >= Max(x.a.bs) + 1
            /\ x.a.cur_bit <= x.max

\* an allocator whose cursor is more than one past its highest set bit
\* while its topmost object, of several units, is live
C9_Witness ==
    \E x \in Allocators :
        /\ ~Draining(x.at) /\ x.a.bs # {}
        /\ x.a.cur_bit > Max(x.a.bs) + 1
        /\ \E o \in HeldObjs :
              /\ (o.n <= SMALL_MAX) = (x.n <= SMALL_MAX)
              /\ HeaderOf(o.p, o.n) = x.at
              /\ IndexOf(World, o.p, o.n) = Max(x.a.bs)
              /\ Units(o.n) > 1

\* the objects that occupy slots: those the callers hold, those a foreign
\* thread freed and no drain has reclaimed, and the new block of a realloc
\* that has not returned
Placed ==
    {o \in objs : o.st \in {"held", "busy", "xfreed"}}
    \cup {Obj(th[t].x, th[t].n, "held") : t \in Growing}

\* C10: every bit set in bs is below cur_bit, and cur_bit is at or above
\* the end of every object whose bit is set, the objects that a foreign
\* thread freed and that were not drained included.
C10_CursorAboveLive ==
    /\ \A x \in Allocators : \A b \in x.a.bs : b < x.a.cur_bit
    /\ \A o \in Placed :
          LET a == Header(World, o.p, o.n)
              i == IndexOf(World, o.p, o.n)
          IN  /\ o.st # "xfreed" => i \in a.bs
              /\ i \in a.bs => i + Units(o.n) <= a.cur_bit

\* a SmallAlloc holds a live object and, above it, an object of several
\* units that a foreign thread freed and that is still in bs and xbs; the
\* cursor is at the end of that object
C10_Witness ==
    \E o \in objs :
        /\ o.st = "xfreed" /\ o.n <= SMALL_MAX /\ Units(o.n) > 1
        /\ LET a == Header(World, o.p, o.n)
               i == IndexOf(World, o.p, o.n)
           IN  /\ i \in a.bs /\ i \in a.xbs /\ i > 0
               /\ a.cur_bit = i + Units(o.n)
               /\ \E q \in HeldObjs : q.p = a.p /\ q.n <= SMALL_MAX

\* the call of thread t has returned a block that alloc produced: hit names
\* the path of ThreadAlloc::alloc that served it
Served(t) ==
    /\ crashed = "" /\ th[t].pc = "idle" /\ th[t].op \in {"alloc", "realloc"}
    /\ th[t].ret # NULL
    /\ th[t].hit \in {"fast", "scan", "newsa", "lbscan", "newlb", "newla"}

\* no other thread of the shard of t has called the allocator
AloneInShard(t) ==
    \A t2 \in Threads \ {t} : Shard(t2) = Shard(t) => th[t2].op = "none"

\* C11: after a successful ThreadAlloc::alloc the allocator that served the
\* request is the head of the thread's SmallAlloc (or LargeAlloc) list, and
\* a LargeBlock or HugeBlock that produced a new child for the request is
\* the head of its list, on every path of alloc.
C11_HeadIsProducer ==
    \A t \in Threads :
        Served(t) =>
            LET a == HeaderOf(th[t].ret, th[t].n)
            IN  /\ Current(World, t, th[t].n) = a
                /\ th[t].hit \in {"newsa", "lbscan", "newlb"} =>
                      ta[t].lb = sa[a].parent
                /\ th[t].hit = "newlb" /\ AloneInShard(t) =>
                      gx[Shard(t)].hb = lb[sa[a].parent].parent
                /\ th[t].hit = "newla" /\ AloneInShard(t) =>
                      gx[Shard(t)].hb = la[a].parent

\* thread t leaves try_hard_alloc on the allocator k in this step: the
\* drain loop has ended and the bump allocation was tried
ScanEnds(t) ==
    /\ th[t].pc = "drain" /\ crashed' = ""
    /\ th'[t].pc # "drain" \/ th'[t].k # th[t].k

\* the allocator that thread t scans, before and after the step
Scanned(t) == IF th[t].tier = "small" THEN sa[th[t].k] ELSE la[th[t].k]
ScannedNext(t) == IF th[t].tier = "small" THEN sa'[th[t].k] ELSE la'[th[t].k]

\* C12 as stated: a bit that a foreign free had set in xbs before the owner
\* entered try_hard_alloc on the allocator is cleared from xbs when that
\* scan ends, whatever other bits are set in bs and xbs.
C12_ScanSeesAll ==
    [][\A t \in Threads :
          ScanEnds(t) => ScannedNext(t).xbs \cap th[t].xs0 = {}]_vars

\* C12: the scan visits the cells from the cursor's cell downward and stops
\* at the first cell where a bit at or above the lowest drained bit stays
\* set in bs, or where the cursor reaches 0.  Every bit that was in xbs
\* when the scan began and lies in a cell the scan visited is cleared from
\* xbs, and from bs unless the allocation that follows the loop took that
\* slot again; a bit in a cell below the stop is left for a later scan.
C12_ScanSeesVisited ==
    [][\A t \in Threads :
          ScanEnds(t) =>
              \A b \in th[t].xs0 :
                  b \div W >= th[t].c =>
                      /\ b \notin ScannedNext(t).xbs
                      /\ b \in ScannedNext(t).bs =>
                            Scanned(t).p + b * SlotSize(th[t].n)
                                \in {th'[t].ret, th'[t].x}]_vars

\* the owner is inside try_hard_alloc on an allocator whose upper cell it
\* has drained: two bits that foreign frees had set there are gone from
\* xbs and bs, and the scan goes on to the cell below
C12_Witness ==
    \E t \in Threads :
        /\ crashed = "" /\ th[t].pc = "drain"
        /\ \E b1, b2 \in th[t].xs0 :
              /\ b1 # b2
              /\ b1 \div W > th[t].c /\ b2 \div W > th[t].c
              /\ {b1, b2} \cap (Scanned(t).xbs \cup Scanned(t).bs) = {}

\* the objects a caller holds in the allocator x, which its owner may free
OwnHeld(x) ==
    {o \in objs : /\ o.st = "held"
                  /\ (o.n <= SMALL_MAX) = (x.n <= SMALL_MAX)
                  /\ HeaderOf(o.p, o.n) = x.at}

\* C13: free(p) by the owner clears p's bit and returns true exactly when
\* cur_bit became 0, which is exactly when no bit remains set in bs; when
\* it returns false, cur_bit is unchanged and a set bit above p's index
\* remains, or cur_bit is p's index, no bit at or above it remains and a
\* lower bit does.
C13_FreeResult ==
    \A x \in Allocators :
        ~Draining(x.at) =>
            \A o \in OwnHeld(x) :
                LET i == (o.p - x.a.p) \div x.sz
                    fr == Bump_free(x.a, o.p, x.sz)
                IN  /\ fr.a.bs = x.a.bs \ {i}
                    /\ fr.r <=> fr.a.cur_bit = 0
                    /\ fr.r <=> fr.a.bs = {}
                    /\ ~fr.r =>
                          \/ /\ fr.a.cur_bit = x.a.cur_bit
                             /\ \E b \in fr.a.bs : b > i
                          \/ /\ fr.a.cur_bit = i
                             /\ \A b \in fr.a.bs : b < i
                             /\ fr.a.bs # {}

\* the owner has freed the last object of its allocator, which was not at
\* slot 0: bs is empty and the cursor is 0; in another allocator the free
\* of the topmost object would leave a lower one and move the cursor to
\* the freed slot
C13_Witness ==
    /\ \E t \in Threads :
          /\ Returned(t, "free") /\ StillOwn(t) /\ th[t].idx > 0
          /\ Header(World, th[t].p, th[t].n).bs = {}
          /\ Header(World, th[t].p, th[t].n).cur_bit = 0
    /\ \E x \in Allocators : \E o \in OwnHeld(x) :
          LET fr == Bump_free(x.a, o.p, x.sz)
          IN  /\ ~Draining(x.at) /\ ~fr.r
              /\ fr.a.cur_bit = (o.p - x.a.p) \div x.sz
              /\ fr.a.cur_bit < x.a.cur_bit

\* the object o lies in an allocator that thread t does not own
Foreign(t, o) ==
    /\ HeaderOf(o.p, o.n) \in DOMAIN (IF o.n <= SMALL_MAX THEN sa ELSE la)
    /\ Header(World, o.p, o.n).ta # t

\* C14: a free(p, n) by a thread that does not own the allocator of p sets
\* bit i of that allocator's xbs and changes nothing else: no mutex, no bs,
\* no cur_bit, no link of the SA, LA and LB lists of either thread, no LB or
\* HB bitmap, no shard list, nothing of the VM layer; the call returns in
\* the same step and no other thread is moved.
C14_ForeignFreeFrame ==
    [][\A t \in Threads : \A o \in objs :
          Free(t, o) /\ Foreign(t, o) =>
              LET a == HeaderOf(o.p, o.n)
                  i == IndexOf(World, o.p, o.n)
              IN  /\ crashed' = ""
                  /\ UNCHANGED <<hb, lb, ta, gx, vm>>
                  /\ IF o.n <= SMALL_MAX
                     THEN /\ sa' = [sa EXCEPT ![a].xbs = @ \cup {i}]
                          /\ la' = la
                     ELSE /\ la' = [la EXCEPT ![a].xbs = @ \cup {i}]
                          /\ sa' = sa
                  /\ th'[t].pc = "idle"
                  /\ \A t2 \in Threads \ {t} : th'[t2] = th[t2]]_vars

\* a thread has freed an object of another thread's allocator in which
\* further bits are set: the bit of the object is in xbs and still in bs
C14_Witness ==
    \E t \in Threads :
        /\ Returned(t, "free")
        /\ Obj(th[t].p, th[t].n, "xfreed") \in objs
        /\ Foreign(t, Obj(th[t].p, th[t].n, "xfreed"))
        /\ LET a == Header(World, th[t].p, th[t].n)
           IN  /\ th[t].idx \in a.xbs /\ th[t].idx \in a.bs
               /\ a.bs # {th[t].idx}

\* the nodes met by following next from k, at most n of them
RECURSIVE Walk(_, _, _)
Walk(f, k, n) ==
    IF n = 0 \/ k = NULL \/ k \notin DOMAIN f THEN <<>>
    ELSE <<k>> \o Walk(f, f[k].next, n - 1)

\* the members of the list whose list_t is l
Members(f, l) ==
    LET s == Walk(f, l, Cardinality(DOMAIN f))
    IN  {s[j] : j \in 1 .. Len(s)}

\* thread t is inside the block of GlobalAlloc::alloc or GlobalAlloc::free
\* that std::lock_guard protects
InLocked(t) == th[t].pc \in {"g_body", "f_body"}

\* the HugeBlock headers that the step writes, creates or removes
Touched ==
    {h \in DOMAIN hb \cup DOMAIN hb' :
        h \notin DOMAIN hb \/ h \notin DOMAIN hb' \/ hb'[h] # hb[h]}

\* C15: a thread is inside a locked block exactly while it holds the mutex
\* of its shard; GlobalAlloc::free(p, hb, id) locks the shard whose list
\* contains hb; every step that writes a HugeBlock bitmap or link, or
\* changes a shard's list, is made by the thread that holds the mutex of
\* the shard whose list contains that HugeBlock; a HugeBlock leaves memory
\* only after it left its list.
C15_MutexProtects ==
    /\ [](\A t \in Threads :
            /\ crashed = "" => (InLocked(t) <=> gx[Shard(t)].mtx = t)
            /\ crashed = "" /\ th[t].pc \in {"f_decommit", "f_lock", "f_body"}
                  => th[t].par \in Members(hb, gx[Shard(t)].hb))
    /\ [][/\ \A h \in Touched :
               \/ \E t \in Threads :
                     /\ InLocked(t) /\ gx[Shard(t)].mtx = t
                     /\ th'[t] # th[t]
                     /\ h \in Members(hb, gx[Shard(t)].hb)
                               \cup Members(hb', gx'[Shard(t)].hb)
               \/ /\ h \notin DOMAIN hb'
                  /\ \E t \in Threads : th[t].pc = "f_vmfree" /\ th[t].par = h
                  /\ \A s \in DOMAIN gx : h \notin Members(hb, gx[s].hb)
          /\ \A s \in DOMAIN gx :
               gx'[s].hb # gx[s].hb =>
                   \E t \in Threads :
                       /\ Shard(t) = s /\ InLocked(t) /\ gx[s].mtx = t
                       /\ th'[t] # th[t]]_vars

\* a thread is inside the locked block of GlobalAlloc::free on a HugeBlock
\* of its shard's list while another thread of the same shard waits for
\* the mutex in GlobalAlloc::alloc
C15_Witness ==
    \E t, t2 \in Threads :
        /\ t # t2 /\ Shard(t) = Shard(t2) /\ crashed = ""
        /\ th[t].pc = "f_body" /\ gx[Shard(t)].mtx = t
        /\ th[t].par \in Members(hb, gx[Shard(t)].hb)
        /\ th[t2].pc = "g_lock"

\* the HugeBlock ranges that the step gives back to the system
Released == vm.reserved \ vm.reserved'

\* C16: a HugeBlock's range is released only by the thread whose
\* GlobalAlloc::free step left the HugeBlock's bitmap zero while it was
\* not the head of the shard's list, and after that step took it off the
\* list.  Hence the head HugeBlock of a shard is always reserved, and
\* every object that is live or foreign-freed and not yet drained lies in
\* a committed Large unit of a reserved HugeBlock.
C16_ReleaseSafe ==
    /\ [](/\ Heads \subseteq vm.reserved
          /\ \A s \in DOMAIN gx : Members(hb, gx[s].hb) \subseteq vm.reserved
          /\ \A o \in Placed :
                /\ UnitOf(o.p) \in vm.committed
                /\ \E h \in vm.reserved : InHB(UnitOf(o.p), h))
    /\ [][/\ \A t \in Threads :
               th[t].pc = "f_body" /\ th'[t].pc = "f_vmfree" =>
                   /\ hb'[th[t].par].bits = {}
                   /\ th[t].par # gx[Shard(t)].hb
                   /\ th[t].par \notin Members(hb', gx'[Shard(t)].hb)
          /\ \A h \in Released :
               /\ hb[h].bits = {} /\ h \notin Heads
               /\ \E t \in Threads :
                     th[t].pc = "f_vmfree" /\ th[t].par = h
                         /\ th'[t].pc = "idle"]_vars

\* the free of a thread has emptied the head HugeBlock of its shard, which
\* stays reserved and on the list, while another HugeBlock of the list
\* holds a committed unit with a live object
C16_Witness ==
    \E t \in Threads :
        LET head == gx[Shard(t)].hb
        IN  /\ Returned(t, "free") /\ th[t].n > SMALL_MAX
            /\ head # NULL /\ hb[head].bits = {} /\ head \in vm.reserved
            /\ InHB(UnitOf(th[t].p), head)
            /\ \E o \in HeldObjs :
                  /\ UnitOf(o.p) \in vm.committed
                  /\ \E h \in Members(hb, head) \ {head} :
                        InHB(UnitOf(o.p), h)

\* thread t is at the last cell of the drain loop of try_hard_alloc: the
\* loop ends with this cell (a break, or cell 0)
LastCell(t) ==
    /\ crashed = "" /\ th[t].pc = "drain"
    /\ LET d == drain_cell(Scanned(t), th[t].c)
       IN  ~(d.more /\ th[t].c - 1 >= 0)

\* the allocator of the scan when the drain loop has ended, before the bump
\* allocation, and the slots the loop has reclaimed
Drained(t) == drain_cell(Scanned(t), th[t].c).a
Reclaimed(t) == th[t].got \cup drain_cell(Scanned(t), th[t].c).x

\* the reclaimed slots with no bit of bs at or above them
FreeTail(t) == {j \in Reclaimed(t) : \A b \in Drained(t).bs : b < j}

\* C17 as stated: after the drain loop the cursor is the lowest reclaimed
\* slot with no bit of bs at or above it (0 when bs is empty, unchanged
\* when every reclaimed slot lies below a set bit), for every combination
\* of foreign-freed and live bits.
C17_CursorAtTail ==
    \A t \in Threads :
        LastCell(t) =>
            Drained(t).cur_bit =
                IF Drained(t).bs = {} THEN 0
                ELSE IF FreeTail(t) # {} THEN Min(FreeTail(t))
                ELSE Scanned(t).cur_bit

\* the last cell held foreign-freed bits both below and above a bit that
\* is still set in bs
Straddled(t) ==
    \E l, j \in Reclaimed(t) : \E b \in Drained(t).bs :
        /\ l < b /\ b < j
        /\ l \div W = th[t].c /\ j \div W = th[t].c

\* C17: after the drain loop the cursor is above every bit set in bs, is 0
\* exactly when bs is empty, and is unchanged when every reclaimed slot
\* lies below a set bit.  It is the lowest reclaimed slot with no set bit
\* at or above it unless the loop stopped at a cell whose foreign-freed
\* bits lay both below and above a bit still set: the loop then stops
\* without lowering the cursor in that cell, and the cursor stays above
\* the reclaimed slots of that cell.
C17_CursorRetract ==
    \A t \in Threads :
        LastCell(t) =>
            LET a == Drained(t)
            IN  /\ \A b \in a.bs : b < a.cur_bit
                /\ a.cur_bit <= Scanned(t).cur_bit
                /\ (a.bs = {}) <=> (a.cur_bit = 0)
                /\ a.bs # {} /\ FreeTail(t) = {} =>
                      a.cur_bit = Scanned(t).cur_bit
                /\ a.bs # {} /\ FreeTail(t) # {} =>
                      /\ a.cur_bit >= Min(FreeTail(t))
                      /\ a.cur_bit > Min(FreeTail(t)) => Straddled(t)

\* the drain loop ends at a cell with foreign-freed bits below and above a
\* live object: the slot above it is reclaimed and the cursor stays past it
C17_Witness ==
    \E t \in Threads :
        /\ LastCell(t) /\ Straddled(t)
        /\ FreeTail(t) # {}
        /\ Drained(t).cur_bit > Min(FreeTail(t))
        /\ Drained(t).cur_bit = Scanned(t).cur_bit

\* the list whose list_t is l: following next from the head ends at nil
\* without meeting a node twice or leaving the nodes in memory, the head's
\* prev is the tail, and the prev of every other node is its predecessor
WellFormed(f, l) ==
    l # NULL =>
        LET s == Walk(f, l, Cardinality(DOMAIN f) + 1)
        IN  /\ l \in DOMAIN f
            /\ Len(s) <= Cardinality(DOMAIN f)
            /\ \A i, j \in 1 .. Len(s) : i # j => s[i] # s[j]
            /\ f[s[Len(s)]].next = NULL
            /\ f[l].prev = s[Len(s)]
            /\ \A j \in 2 .. Len(s) : f[s[j]].prev = s[j - 1]

\* the faults of a list operation applied to the tail or to nil
ListFaults ==
    {"list_move_front: nil link", "list_move_head_back: nil link",
     "list: nil link", "_try_alloc: nil link"}

\* C18: the SA, LA and LB list of every thread and the HB list of every
\* shard are well-formed in every state: head.prev is the tail, tail.next
\* is nil, and following next from the head visits every member exactly
\* once.  The node that a scan may move to the front is a member that is
\* not the tail, and no list_move_front, list_move_head_back or scan
\* meets a nil link.
C18_ListsWellFormed ==
    /\ \A t \in Threads :
          /\ WellFormed(sa, ta[t].sa)
          /\ WellFormed(la, ta[t].la)
          /\ WellFormed(lb, ta[t].lb)
          /\ crashed = "" /\ th[t].pc = "drain" =>
                /\ Scanned(t).next # NULL
                /\ th[t].k \in (IF th[t].tier = "small"
                                THEN Members(sa, ta[t].sa)
                                ELSE Members(la, ta[t].la))
    /\ \A s \in DOMAIN gx : WellFormed(hb, gx[s].hb)
    /\ crashed \notin ListFaults

\* a scan has served a request from the middle of a list of three
\* allocators or more and moved that allocator to the front, after the
\* head had been moved to the back
C18_Witness ==
    \E t \in Threads :
        /\ Served(t) /\ th[t].hit = "scan"
        /\ LET small == th[t].n <= SMALL_MAX
               f == IF small THEN sa ELSE la
               l == IF small THEN ta[t].sa ELSE ta[t].la
               s == Walk(f, l, Cardinality(DOMAIN f))
           IN  /\ Len(s) >= 3
               /\ s[1] = HeaderOf(th[t].ret, th[t].n)
               /\ s[Len(s)] = th[t].h0

\* C19: every SmallAlloc, LargeAlloc and LargeBlock that holds an object
\* (live, or foreign-freed and not yet drained) is a member of the
\* corresponding list of the thread that owns it, on every allocation
\* path; so the list_erase that ThreadAlloc::free issues on an emptied
\* allocator other than the head never meets a nil prev.
C19_OwnedAreLinked ==
    /\ \A o \in Placed :
          LET a == HeaderOf(o.p, o.n)
              t == Header(World, o.p, o.n).ta
          IN  IF o.n <= SMALL_MAX
              THEN /\ a \in Members(sa, ta[t].sa)
                   /\ sa[a].parent \in Members(lb, ta[t].lb)
              ELSE a \in Members(la, ta[t].la)
    /\ crashed # "list_erase: nil link"

\* the call of thread t was served by an allocator that the call itself
\* constructed in place
Fresh(t) ==
    Served(t) /\ th[t].hit \in {"newsa", "lbscan", "newlb", "newla"}

\* C20: in every state, whatever the interleaving, every bit of xbs is
\* also set in bs, for every SmallAlloc and LargeAlloc in memory, the
\* released ones included; so an allocator that is found empty has a zero
\* xbs, and an allocator constructed in a recycled slot starts with both
\* bitmaps clear: after its first alloc, bs holds the bit of the returned
\* block and nothing else.
C20_XbsWithinBs ==
    /\ \A x \in Allocators : x.a.xbs \subseteq x.a.bs
    /\ \A t \in Threads :
          Fresh(t) =>
              LET a == Header(World, th[t].ret, th[t].n)
              IN  /\ a.bs = {IndexOf(World, th[t].ret, th[t].n)}
                  /\ a.xbs \subseteq a.bs

\* a SmallAlloc was constructed in the slot of a released SmallAlloc in
\* which a foreign thread had freed an object: the owner drained that bit,
\* freed the last object, and the slot was carved again
C20_Witness ==
    \E t, t2 \in Threads :
        /\ t # t2 /\ Fresh(t) /\ th[t].hit = "newsa"
        /\ Returned(t2, "free") /\ th[t2].n <= SMALL_MAX
        /\ HeaderOf(th[t2].p, th[t2].n) = HeaderOf(th[t].ret, th[t].n)
        /\ \A o \in objs : o.p = th[t2].p => o.st = "held"
        /\ Header(World, th[t].ret, th[t].n).xbs = {}

\* the members of the list whose list_t is l, the head left out
NonHeads(f, l) == Members(f, l) \ {l}

\* C21: in every reachable state, every member other than the head of a
\* thread's SA and LA list has a bit set in bs, and every member other
\* than the head of a thread's LB list and of a shard's HB list has a bit
\* set in its bitmap: an empty allocator or block is the head of its list
\* or is on no list.
C21_NonHeadsNonEmpty ==
    /\ \A t \in Threads :
          /\ \A a \in NonHeads(sa, ta[t].sa) : sa[a].bs # {}
          /\ \A a \in NonHeads(la, ta[t].la) : la[a].bs # {}
          /\ \A b \in NonHeads(lb, ta[t].lb) : lb[b].bits # {}
    /\ \A s \in DOMAIN gx : \A h \in NonHeads(hb, gx[s].hb) : hb[h].bits # {}

\* the owner has freed the last object of the head SmallAlloc of a list of
\* two or more: the head is empty and stays on the list, the other
\* members hold objects
C21_Witness ==
    \E t \in Threads :
        /\ Returned(t, "free") /\ th[t].n <= SMALL_MAX /\ th[t].cur
        /\ ta[t].sa = HeaderOf(th[t].p, th[t].n)
        /\ sa[ta[t].sa].bs = {}
        /\ NonHeads(sa, ta[t].sa) # {}
        /\ \A a \in NonHeads(sa, ta[t].sa) : sa[a].bs # {}

\* thread t has obtained the unit lu from the HugeBlock par under the
\* mutex and has not committed it yet
Obtained(t) == crashed = "" /\ th[t].pc = "g_commit"

\* thread t is inside GlobalAlloc::free(lu, par, id) and has not cleared
\* the bit of lu yet
Freeing(t) == crashed = "" /\ th[t].pc \in {"f_decommit", "f_lock", "f_body"}

\* the bit of the Large unit u in the bitmap of the HugeBlock h is set
BitSet(h, u) == h \in DOMAIN hb /\ (u - hb[h].p) \div LB_SIZE \in hb[h].bits

\* the headers in the Large unit u were constructed by thread t
BuiltBy(u, t) ==
    /\ u \in DOMAIN la => la[u].ta = t
    /\ \A x \in DOMAIN sa : Within(x, u, LB_SIZE) => sa[x].ta = t

\* C22: the commit outside the mutex in GlobalAlloc::alloc and the
\* decommit before the mutex in GlobalAlloc::free never conflict.  A unit
\* that a thread has obtained and not yet committed is uncommitted, its bit
\* is set in a reserved HugeBlock of the shard's list, and no other thread
\* has obtained it or is freeing it; a unit being freed has its bit set
\* until the freeing thread clears it and is on no thread's list.  A unit
\* is decommitted only by the thread that held it, while its bit is set;
\* it is committed only by the thread that obtained it, after the previous
\* holder's decommit; and no HugeBlock is released while a thread holds an
\* uncommitted unit of it.
C22_CommitOrder ==
    /\ [](\A t \in Threads :
            /\ Obtained(t) =>
                  /\ th[t].lu \notin vm.committed
                  /\ th[t].par \in vm.reserved
                  /\ th[t].par \in Members(hb, gx[Shard(t)].hb)
                  /\ BitSet(th[t].par, th[t].lu)
                  /\ \A t2 \in Threads \ {t} :
                        Obtained(t2) \/ Freeing(t2) => th[t2].lu # th[t].lu
            /\ Freeing(t) =>
                  /\ BitSet(th[t].par, th[t].lu)
                  /\ \A t2 \in Threads :
                        th[t].lu \notin Members(lb, ta[t2].lb)
                                           \cup Members(la, ta[t2].la))
    /\ [][/\ \A u \in vm.committed \ vm.committed' :
               \E t \in Threads :
                   /\ th[t].pc = "f_decommit" /\ th[t].lu = u
                   /\ th'[t].pc = "f_lock"
                   /\ BitSet(th[t].par, u) /\ BuiltBy(u, t)
          /\ \A u \in vm.committed' \ vm.committed :
               \E t \in Threads :
                   /\ th[t].pc = "g_commit" /\ th[t].lu = u
                   /\ th'[t].pc # "g_commit"
                   /\ \A t2 \in Threads \ {t} : Freeing(t2) => th[t2].lu # u
          /\ \A h \in Released :
               \A t \in Threads : Obtained(t) => th[t].par # h]_vars

\* a thread has obtained, and not yet committed, the unit that another
\* thread of the same shard released with its last free: the unit is
\* uncommitted and its bit is set again
C22_Witness ==
    \E t, t2 \in Threads :
        /\ t # t2 /\ Shard(t) = Shard(t2)
        /\ Obtained(t) /\ Returned(t2, "free") /\ th[t2].n > SMALL_MAX
        /\ UnitOf(th[t2].p) = th[t].lu
        /\ \A o \in objs : o.p # th[t2].p
        /\ th[t].lu \notin vm.committed
        /\ BitSet(th[t].par, th[t].lu)
====
